---------------------------- MODULE Spec2Model ----------------------------
(***************************************************************************)
(* State-machine model of BGT60TR13C_Vital_Signal.py: the radar vital-signs*)
(* pipeline (producer thread read_data, processing thread                  *)
(* RadarDataProcessor.process_data, the Qt timer callback update_plots and *)
(* the three live-configuration callbacks).                                *)
(*                                                                         *)
(* Scaling.  The program's sizes (20 Hz, 2000-sample buffers, 1600-bin     *)
(* spectra) are scaled down; every derived size keeps the formula the      *)
(* source computes it with.  Numeric conventions:                          *)
(*   - a complex sample is <<re, im>> with one component zero, so that     *)
(*     np.abs and np.angle are exact: the envelope is in units of 1/1000   *)
(*     and a phase in quarter turns (pi/2);                                *)
(*   - filtered-signal values are in units of 1/100;                       *)
(*   - band edges are in units of 1/24 Hz, distances in half range bins;   *)
(*   - a non-integer number is a pair <<numerator, denominator>>.          *)
(* The numeric kernels of the libraries (range FFT, FIR/Savitzky-Golay/    *)
(* trend filters, vital-signs FFT) are inputs of the model: a frame is     *)
(* given by its range profile, a filter by the newest value it produces,   *)
(* a spectrum by its magnitudes.                                           *)
(***************************************************************************)
EXTENDS Integers, Sequences, FiniteSets, TLC

(***************************************************************************)
(* Bounds of the model.                                                    *)
(***************************************************************************)
MaxFrames == 3
MaxHoldFrames == 4
MaxPeakFrames == 2
MaxPresenceFrames == 3
MaxConfigFrames == 2
MaxDetectFrames == 5
MaxBacklog == 4
MaxFrontEndFrames == 3
MaxShutdownFrames == 3
MaxUnwrapFrames == 5
MaxLiveFrames == 4

MaxRaceFrames == 4

MaxBandRaceFrames == 2
MaxQueue == 1
MaxQueueLive == 2
MaxTicks == 2
MaxConfigChanges == 1

(***************************************************************************)
(* Program constants (scaled).                                             *)
(***************************************************************************)
frame_rate == 1
samples_per_chirp == 4
vital_signs_sample_rate == 1 * frame_rate
processing_window_time == 3
buffer_time == 5 * processing_window_time
estimation_time == 3
fft_size_range_profile == samples_per_chirp * 2
buffer_data_size == buffer_time * vital_signs_sample_rate
processing_data_size == processing_window_time * vital_signs_sample_rate
fft_size_vital_signs == processing_data_size * 4
estimation_rate == vital_signs_sample_rate
estimation_index_breathing == buffer_data_size - estimation_time * estimation_rate
estimation_index_heart == buffer_data_size - estimation_time * estimation_rate
\* band edges are counted in 1/BandDen Hz
BandDen == 2 * fft_size_vital_signs
\* line 276: the detector runs when counter % 5 == 0
detection_interval == 5

\* peak_finding_distance = 0.01, as a fraction
peak_finding_distance == <<1, 100>>
\* presence thresholds 0.0001 and 0.001, as fractions
min_variance_threshold == <<1, 10000>>
min_envelope_threshold == <<1, 1000>>
\* the presence gate looks at the last 5 seconds
presence_window_time == 5
\* one unit of a filtered-signal value and of an envelope value
FilteredUnit == <<1, 100>>
EnvelopeUnit == <<1, 1000>>
\* initial band edges (0.15, 0.6, 0.85, 2.4 Hz at 20 Hz), in 1/BandDen Hz
low_breathing_0 == 2
high_breathing_0 == 10
low_heart_0 == 5
high_heart_0 == 11
\* initial range gate (0.5 m, 0.6 m), in half range bins
object_distance_start_range_0 == 3
object_distance_stop_range_0 == 7
\* nyquist_freq = 0.5 * vital_signs_sample_rate, as a fraction
nyquist_freq == <<vital_signs_sample_rate, 2>>
filter_order == vital_signs_sample_rate + 1

(***************************************************************************)
(* Arithmetic helpers.                                                     *)
(***************************************************************************)
Abs(x) == IF x < 0 THEN -x ELSE x

Min(a, b) == IF a < b THEN a ELSE b

Max(a, b) == IF a > b THEN a ELSE b

\* Python's int(): truncation toward zero of num/den (den > 0)
Trunc(num, den) == IF num >= 0 THEN num \div den ELSE -((-num) \div den)

\* Python's round() of a float: to nearest, ties to the even integer (den > 0)
RoundHalfEven(num, den) ==
    LET f == num \div den
        r == num - f * den
    IN  IF 2 * r < den THEN f
        ELSE IF 2 * r > den THEN f + 1
        ELSE IF f % 2 = 0 THEN f ELSE f + 1

RECURSIVE SumSeq(_)
SumSeq(s) == IF s = <<>> THEN 0 ELSE Head(s) + SumSeq(Tail(s))

SumSq(s) == SumSeq([i \in 1..Len(s) |-> s[i] * s[i]])

\* the last k entries of a buffer: buf[-k:]
LastK(buf, k) == SubSeq(buf, Len(buf) - k + 1, Len(buf))

\* buf[i:] for a 0-based index i >= 0
From(buf, i) == SubSeq(buf, i + 1, Len(buf))

\* Python slice seq[start:stop] with Python's handling of negative and
\* out-of-range indices
PySlice(seq, start, stop) ==
    LET n == Len(seq)
        norm(i) == IF i < 0 THEN Max(i + n, 0) ELSE Min(i, n)
    IN  SubSeq(seq, norm(start) + 1, norm(stop))

\* np.argmax: 0-based index of the first maximum of a non-empty sequence
ArgMax(s) ==
    CHOOSE i \in 0..(Len(s) - 1) :
        /\ \A j \in 0..(Len(s) - 1) : s[j + 1] <= s[i + 1]
        /\ \A j \in 0..(i - 1) : s[j + 1] < s[i + 1]

(***************************************************************************)
(* Ring buffers: the np.roll idiom.                                        *)
(***************************************************************************)
\* a shift that drops the evicted entries instead of wrapping them around
RollDropping(buf, k) == SubSeq(buf, (k % Len(buf)) + 1, Len(buf))

\* np.roll(buf, -k): a circular shift to the left by k
Roll(buf, k) ==
    SubSeq(buf, (k % Len(buf)) + 1, Len(buf)) \o SubSeq(buf, 1, k % Len(buf))

\* buf[-1] = v
SetLast(buf, v) == Append(SubSeq(buf, 1, Len(buf) - 1), v)

\* np.zeros(n)
Zeros(n) == [i \in 1..n |-> 0]

\* seq[i] for a Python index i, negative indices counting from the end
PyIndex(seq, i) == IF i < 0 THEN seq[Len(seq) + i + 1] ELSE seq[i + 1]


(***************************************************************************)
(* Fractions <<n, d>> with d > 0.                                          *)
(***************************************************************************)
RECURSIVE GCD(_, _)
GCD(a, b) == IF b = 0 THEN a ELSE GCD(b, a % b)

\* the fraction in lowest terms
RNorm(a) ==
    LET g == GCD(Abs(a[1]), a[2])
    IN  <<a[1] \div g, a[2] \div g>>

RLess(a, b) == a[1] * b[2] < b[1] * a[2]

REq(a, b) == a[1] * b[2] = b[1] * a[2]

RLeq(a, b) == a[1] * b[2] <= b[1] * a[2]

RAdd(a, b) == RNorm(<<a[1] * b[2] + b[1] * a[2], a[2] * b[2]>>)

RSub(a, b) == RNorm(<<a[1] * b[2] - b[1] * a[2], a[2] * b[2]>>)

RMul(a, b) == RNorm(<<a[1] * b[1], a[2] * b[2]>>)

\* a / b for b > 0
RDiv(a, b) == RNorm(<<a[1] * b[2], a[2] * b[1]>>)

RInt(n) == <<n, 1>>

RAbs(a) == <<Abs(a[1]), a[2]>>

RMin(a, b) == IF RLess(b, a) THEN b ELSE a

RMax(a, b) == IF RLess(a, b) THEN b ELSE a

\* np.mean of a sequence of integers
Mean(s) == RNorm(<<SumSeq(s), Len(s)>>)

(***************************************************************************)
(* Complex samples, np.abs, np.angle and np.unwrap.                        *)
(***************************************************************************)
\* np.abs of a sample with one zero component, in envelope units
ComplexAbs(z) == Abs(z[1]) + Abs(z[2])

\* np.angle (atan2(im, re)) of a sample with one zero component, in quarter
\* turns: a value in -1..2, pi being 2
ComplexAngle(z) ==
    IF z[2] > 0 THEN 1
    ELSE IF z[2] < 0 THEN -1
    ELSE IF z[1] < 0 THEN 2 ELSE 0

\* np.unwrap's correction of one step dd = p[i] - p[i-1], period 4 (2 pi),
\* discontinuity 2 (pi)
PhaseCorrection(dd) ==
    LET m == ((dd + 2) % 4) - 2
        ddmod == IF m = -2 /\ dd > 0 THEN 2 ELSE m
    IN  IF Abs(dd) < 2 THEN 0 ELSE ddmod - dd

\* np.unwrap(p): p[0] kept, p[i] + the accumulated corrections after it
RECURSIVE CumCorrection(_, _)
CumCorrection(p, i) ==
    IF i <= 1 THEN 0
    ELSE CumCorrection(p, i - 1) + PhaseCorrection(p[i] - p[i - 1])

Unwrap(p) == [i \in 1..Len(p) |-> p[i] + CumCorrection(p, i)]

\* buf[-k:] = w for a window w of length k
SetLastK(buf, w) == SubSeq(buf, 1, Len(buf) - Len(w)) \o w

(***************************************************************************)
(* Peak search: scipy.signal.find_peaks and find_signal_peaks.             *)
(***************************************************************************)
\* distance = int(max(1, distance * fft_size_vital_signs / sample_rate))
PeakDistance ==
    Max(1, Trunc(peak_finding_distance[1] * fft_size_vital_signs,
                 peak_finding_distance[2] * vital_signs_sample_rate))

\* find_peaks(x, distance): the 0-based indices of the local maxima of x.  A
\* local maximum is a run x[l..r] of equal values whose two neighbours exist
\* and are strictly lower; the peak is its middle (l + r) // 2.  PeakDistance
\* is 1, for which the distance rule removes nothing: two local maxima are
\* never adjacent.
find_peaks(x) ==
    { m \in 1..(Len(x) - 2) :
        \E l \in 1..m : \E r \in m..(Len(x) - 2) :
            /\ \A k \in l..r : x[k + 1] = x[l + 1]
            /\ x[l] < x[l + 1]
            /\ x[r + 2] < x[r + 1]
            /\ m = (l + r) \div 2 }

\* the first peak, whatever its height
FirstPeak(region, peaks) == CHOOSE m \in peaks : \A k \in peaks : m <= k

\* np.argmax(signal_region[peaks]): the first highest peak
BestPeak(region, peaks) ==
    CHOOSE m \in peaks :
        /\ \A k \in peaks : region[k + 1] <= region[m + 1]
        /\ \A k \in peaks : k < m => region[k + 1] < region[m + 1]

\* RadarDataProcessor.find_signal_peaks; 0 means "no peak"
find_signal_peaks(fft_windowed_signal, index_start, index_end) ==
    LET signal_region == PySlice(fft_windowed_signal, index_start, index_end)
        peaks == find_peaks(signal_region)
    IN  IF peaks # {} THEN BestPeak(signal_region, peaks) + index_start ELSE 0


(***************************************************************************)
(* The rate axis and the conversion of a mean peak index to a rate.        *)
(***************************************************************************)
\* the axis np.fft.fftshift(np.fft.fftfreq(fft_size, 1 / fs)) would give:
\* steps of fs / fft_size with 0 Hz at index fft_size / 2
fftfreq_axis(i) ==
    <<(2 * i - fft_size_vital_signs) * vital_signs_sample_rate,
      2 * fft_size_vital_signs>>

\* x_axis_vital_signs_spectrum[i], np.linspace(-fs/2, fs/2, fft_size): the
\* i-th of fft_size points, both end points included
x_axis_vital_signs_spectrum(i) ==
    <<(0 - vital_signs_sample_rate) * (fft_size_vital_signs - 1)
          + 2 * i * vital_signs_sample_rate,
      2 * (fft_size_vital_signs - 1)>>

\* a window that starts one entry early, index_buffer[estimation_index - 1:]
EstimationWindowLong(index_buffer, estimation_index) ==
    SubSeq(index_buffer, estimation_index, Len(index_buffer))

\* the window the rate is averaged over: index_buffer[estimation_index:]
EstimationWindow(index_buffer, estimation_index) ==
    From(index_buffer, estimation_index)

\* round(x_axis[round(fft_size / 2 + np.mean(window))] * 60) - 2
RateValue(window) ==
    LET axis_index == RoundHalfEven(fft_size_vital_signs * Len(window)
                                        + 2 * SumSeq(window),
                                    2 * Len(window))
        xb == RMul(x_axis_vital_signs_spectrum(axis_index), RInt(60))
    IN  RoundHalfEven(xb[1], xb[2]) - 2

\* update_plots, lines 383-397: one rate series is advanced when the entry
\* at the start of the estimation window is a detection
UpdateRateValue(value_buffer, index_buffer, estimation_index) ==
    IF index_buffer[estimation_index + 1] > 0
    THEN SetLast(Roll(value_buffer, 1),
                 RateValue(EstimationWindow(index_buffer, estimation_index)))
    ELSE value_buffer


(***************************************************************************)
(* The presence gate and the telemetry values of update_plots.             *)
(***************************************************************************)
PresenceWindow == presence_window_time * vital_signs_sample_rate

\* np.var(recent_breathing): the population variance, mean(x^2) - mean(x)^2
signal_variance(recent_breathing) ==
    LET n == Len(recent_breathing)
        S == SumSeq(recent_breathing)
    IN  RMul(RNorm(<<n * SumSq(recent_breathing) - S * S, n * n>>),
             RMul(FilteredUnit, FilteredUnit))

\* np.mean(recent_envelope)
mean_envelope(recent_envelope) == RMul(Mean(recent_envelope), EnvelopeUnit)

\* a gate that opens on either measure alone
PresenceDetectedEither(filtered, envelope) ==
    \/ RLess(min_variance_threshold,
             signal_variance(LastK(filtered, PresenceWindow)))
    \/ RLess(min_envelope_threshold,
             mean_envelope(LastK(envelope, PresenceWindow)))

\* line 432: signal quality is good
PresenceDetected(filtered, envelope) ==
    /\ RLess(min_variance_threshold,
             signal_variance(LastK(filtered, PresenceWindow)))
    /\ RLess(min_envelope_threshold,
             mean_envelope(LastK(envelope, PresenceWindow)))

\* no clamping at all
ClampOpen(lo, hi, x) == x

\* lines 446 and 451: max(lo, min(hi, x))
Clamp(lo, hi, x) == RMax(lo, RMin(hi, x))

\* lines 434-451: the breathing-amplitude ratio sent as /xratio and /yratio
osc_value(filtered) ==
    LET recent_breathing == LastK(filtered, PresenceWindow)
        current_breathing == RMul(RInt(filtered[Len(filtered)]), FilteredUnit)
        baseline == RMul(Mean(recent_breathing), FilteredUnit)
        deviations == { RAbs(RSub(RMul(RInt(recent_breathing[i]), FilteredUnit),
                                  baseline)) : i \in 1..Len(recent_breathing) }
        largest == CHOOSE d \in deviations : \A e \in deviations : RLeq(e, d)
        amplitude == RAdd(largest, <<1, 10000>>)
        normalized_value == RDiv(RSub(current_breathing, baseline), amplitude)
        circle_size == Clamp(RInt(30), RInt(100),
                             RAdd(RInt(50), RMul(RInt(40), normalized_value)))
    IN  Clamp(<<1, 10>>, RInt(1),
              RAdd(<<1, 10>>,
                   RDiv(RMul(<<9, 10>>, RSub(circle_size, RInt(30))), RInt(70))))

\* lines 464-475: a rate series' recent mean in Hz, 0 unless it is positive
RateHz(value_buffer) ==
    LET avg_rate == Mean(LastK(value_buffer,
                               estimation_time * vital_signs_sample_rate))
    IN  IF RLess(RInt(0), avg_rate) THEN RDiv(avg_rate, RInt(60)) ELSE RInt(0)

\* lines 478-482: the message sent when a person is present
PresentMessage(filtered, breathing_value, heart_value) ==
    [xhz |-> RateHz(breathing_value),
     yhz |-> RDiv(RateHz(heart_value), RInt(2)),
     xratio |-> osc_value(filtered),
     yratio |-> osc_value(filtered),
     presence |-> 1]

\* lines 508-512: the message sent when no person is detected
AbsentMessage ==
    [xhz |-> RInt(0), yhz |-> RInt(0),
     xratio |-> <<1, 10>>, yratio |-> <<1, 10>>,
     presence |-> 0]

\* an absent branch that sends the rates and the ratio all the same
TelemetryMessageRatesKept(filtered, envelope, breathing_value, heart_value) ==
    IF PresenceDetected(filtered, envelope)
    THEN PresentMessage(filtered, breathing_value, heart_value)
    ELSE [xhz |-> RateHz(breathing_value),
          yhz |-> RDiv(RateHz(heart_value), RInt(2)),
          xratio |-> osc_value(filtered),
          yratio |-> osc_value(filtered),
          presence |-> 0]

\* lines 416-513: the telemetry message of one update_plots call
TelemetryMessage(filtered, envelope, breathing_value, heart_value) ==
    IF PresenceDetected(filtered, envelope)
    THEN PresentMessage(filtered, breathing_value, heart_value)
    ELSE AbsentMessage


(***************************************************************************)
(* Live configuration: band edges, FIR taps and search-index bounds.       *)
(***************************************************************************)
\* firwin(filter_order, [low / nyquist, high / nyquist], pass_zero=False)
\* accepts cutoffs that are strictly inside (0, nyquist) and strictly
\* increasing, and raises ValueError otherwise
firwin_accepts(low, high) ==
    /\ 0 < low
    /\ RLess(<<high, BandDen>>, nyquist_freq)
    /\ low < high

\* the taps firwin designs, named by what determines them
firwin(numtaps, low, high) == [numtaps |-> numtaps, cutoff |-> <<low, high>>]

\* a bound rounded to the nearest bin instead of truncated
SearchIndexRounded(edge) ==
    RoundHalfEven(edge * fft_size_vital_signs, BandDen * vital_signs_sample_rate)

\* int(edge / vital_signs_sample_rate * fft_size_vital_signs)
SearchIndex(edge) ==
    Trunc(edge * fft_size_vital_signs, BandDen * vital_signs_sample_rate)

\* lines 668-669 and 685-686: the guard of a band change
BandAccepted(region) ==
    /\ RLess(<<region[1], BandDen>>, <<vital_signs_sample_rate, 4>>)
    /\ RLess(<<region[2], BandDen>>, <<vital_signs_sample_rate, 2>>)
    /\ region[1] > 0
    /\ region[2] > 0

\* Python values by their type: None, the tuple (None, None) and an array
None == [type |-> "NoneType", items |-> <<>>]

NoneTuple == [type |-> "tuple", items |-> <<None, None>>]

NdArray(items) == [type |-> "ndarray", items |-> items]

\* a queue that counts as empty while fewer than two frames wait in it
emptyBelowTwo(queue) == Len(queue) < 2

\* data_queue.empty(), lines 120 and 170
empty(queue) == queue = <<>>

\* lines 119-138: the range profile of the oldest frame, which is taken off
\* the queue, or "return None, None" when the queue is empty
calc_range_fft(queue) ==
    IF ~empty(queue)
    THEN [result |-> NdArray(Head(queue)), queue |-> Tail(queue)]
    ELSE [result |-> NoneTuple, queue |-> queue]

\* line 180: range_fft_antennas_buffer is not None
IsNotNone(value) == value.type # "NoneType"

\* int(distance / max_range * fft_size_range_profile / 2), a distance being
\* counted in half range bins
RangeIndex(distance) == Trunc(distance, 2)

(***************************************************************************)
(* State.                                                                  *)
(***************************************************************************)
VARIABLES
    \* the hand-off queue and the processing thread
    data_queue,                     \* queue.Queue(): frames not yet dequeued
    process_thread,                 \* "running", or "dead" after an exception
    app_running,                    \* the Qt event loop, app.exec_(), has not returned
    cycles_at_quit,                 \* history: the cycles done when it returned
    counter,                        \* process_data's count of unprocessed samples
    detection_cycles,               \* history: the cycles that ran the breath-cycle detector
    range_fft_antennas_buffer,      \* what calc_range_fft returned to process_data
    filtered_breathing,             \* the freshly filtered breathing window
    filtered_heart,                 \* the freshly filtered heart window
    pc,                             \* where the processing thread is in its cycle
    taps_used,                      \* history: the taps the cycle in progress filtered with
    shifted,                        \* history: the buffers the cycle in progress has rolled
    written,                        \* history: the buffers whose newest slot it has written
    \* the ring buffers
    radar_time_stamp,
    slow_time_buffer_data,
    I_Q_envelop,
    wrapped_phase_plot,
    unwrapped_phase_plot,
    filtered_breathing_plot,
    filtered_heart_plot,
    range_profile_peak_indices,
    breathing_rate_estimation_index,
    heart_rate_estimation_index,
    breathing_rate_estimation_value,
    heart_rate_estimation_value,
    \* per-cycle results
    range_fft_abs,
    range_profile_peak_index,
    breathing_fft,
    heart_fft,
    rate_index_br,
    rate_index_hr,
    \* live configuration
    object_distance_start_range,
    object_distance_stop_range,
    low_breathing,
    high_breathing,
    breathing_b,
    index_start_breathing,
    index_end_breathing,
    low_heart,
    high_heart,
    heart_b,
    index_start_heart,
    index_end_heart,
    \* what update_plots last sent and showed
    osc_message,
    presence_text,
    \* history, for stating properties
    frames_read,                    \* frames the producer has enqueued
    pushed,                         \* the samples written to the IQ buffer, in order
    no_peak_run,                    \* per band, cycles since the last peak
    appended_at_run,                \* per band, no_peak_run at the last rate appended since then, or -1
    timer_ticks,                    \* calls of update_plots
    config_changes,                 \* calls of the configuration callbacks
    last_callback                   \* the last configuration callback and its outcome

queueVars == <<data_queue, frames_read>>

slowTimeVars ==
    <<radar_time_stamp, slow_time_buffer_data, I_Q_envelop, wrapped_phase_plot,
      unwrapped_phase_plot, range_profile_peak_indices, range_fft_abs,
      range_profile_peak_index, pushed>>

filterVars ==
    <<filtered_breathing_plot, filtered_heart_plot, filtered_breathing,
      filtered_heart>>

estimateVars ==
    <<breathing_rate_estimation_index, heart_rate_estimation_index,
      breathing_fft, heart_fft, rate_index_br, rate_index_hr, no_peak_run>>

rateVars == <<breathing_rate_estimation_value, heart_rate_estimation_value>>

gateVars == <<object_distance_start_range, object_distance_stop_range>>

breathingBandVars ==
    <<low_breathing, high_breathing, breathing_b, index_start_breathing,
      index_end_breathing>>

heartBandVars ==
    <<low_heart, high_heart, heart_b, index_start_heart, index_end_heart>>

plotVars == <<osc_message, presence_text, timer_ticks>>

callbackVars == <<config_changes, last_callback>>

detectorVars == <<counter, detection_cycles>>

appVars == <<app_running, cycles_at_quit>>

stageVars == <<pc, taps_used, shifted, written>>

\* the locals of process_data that outlive a cycle
localVars == <<detectorVars, range_fft_antennas_buffer>>

vars ==
    <<queueVars, process_thread, appVars, stageVars, localVars, slowTimeVars,
      filterVars, estimateVars, rateVars, appended_at_run, gateVars,
      breathingBandVars, heartBandVars, plotVars, callbackVars>>

\* the cycle in progress has not filtered yet
NoTaps == [breathing |-> <<>>, heart |-> <<>>]

\* the slow-time buffers rolled at lines 187-188, and those rolled and
\* written at lines 210-218 and at lines 233-240
RolledFirst == {"slow_time_buffer_data", "I_Q_envelop"}

PhaseBuffers == {"wrapped_phase_plot", "unwrapped_phase_plot"}

FilteredBuffers == {"filtered_breathing_plot", "filtered_heart_plot"}

\* the ring buffers update_plots draws against radar_time_stamp
SlowTimeBuffers ==
    {"radar_time_stamp"} \cup RolledFirst \cup PhaseBuffers \cup FilteredBuffers

\* no message has been sent yet
NoMessage ==
    [xhz |-> RInt(0), yhz |-> RInt(0), xratio |-> RInt(0), yratio |-> RInt(0),
     presence |-> -1]

Bands == {"breathing", "heart"}

\* every ring buffer of the program
RingBuffers ==
    <<radar_time_stamp, slow_time_buffer_data, I_Q_envelop, wrapped_phase_plot,
      unwrapped_phase_plot, filtered_breathing_plot, filtered_heart_plot,
      range_profile_peak_indices, breathing_rate_estimation_index,
      heart_rate_estimation_index, breathing_rate_estimation_value,
      heart_rate_estimation_value>>

RangeBins == fft_size_range_profile \div 2

\* lines 868-885 and the module-level initialisation, lines 78-103, but for
\* the two rate series
InitExceptRates ==
    /\ data_queue = <<>>
    /\ process_thread = "running"
    /\ app_running = TRUE
    /\ cycles_at_quit = 0
    /\ counter = 0
    /\ detection_cycles = <<>>
    /\ range_fft_antennas_buffer = None
    /\ radar_time_stamp = Zeros(buffer_data_size)
    /\ slow_time_buffer_data = [i \in 1..buffer_data_size |-> <<0, 0>>]
    /\ I_Q_envelop = Zeros(buffer_data_size)
    /\ wrapped_phase_plot = Zeros(buffer_data_size)
    /\ unwrapped_phase_plot = Zeros(buffer_data_size)
    /\ filtered_breathing_plot = Zeros(buffer_data_size)
    /\ filtered_heart_plot = Zeros(buffer_data_size)
    /\ filtered_breathing = <<>>
    /\ filtered_heart = <<>>
    /\ pc = "idle"
    /\ taps_used = NoTaps
    /\ shifted = {}
    /\ written = {}
    /\ range_profile_peak_indices = Zeros(buffer_data_size)
    /\ breathing_rate_estimation_index = Zeros(buffer_data_size)
    /\ heart_rate_estimation_index = Zeros(buffer_data_size)
    /\ range_fft_abs = Zeros(RangeBins)
    /\ range_profile_peak_index = 0
    /\ breathing_fft = Zeros(fft_size_vital_signs)
    /\ heart_fft = Zeros(fft_size_vital_signs)
    /\ rate_index_br = 0
    /\ rate_index_hr = 0
    /\ object_distance_start_range = object_distance_start_range_0
    /\ object_distance_stop_range = object_distance_stop_range_0
    /\ low_breathing = low_breathing_0
    /\ high_breathing = high_breathing_0
    /\ breathing_b = firwin(filter_order, low_breathing_0, high_breathing_0)
    /\ index_start_breathing = SearchIndex(low_breathing_0)
    /\ index_end_breathing = SearchIndex(high_breathing_0)
    /\ low_heart = low_heart_0
    /\ high_heart = high_heart_0
    /\ heart_b = firwin(filter_order, low_heart_0, high_heart_0)
    /\ index_start_heart = SearchIndex(low_heart_0)
    /\ index_end_heart = SearchIndex(high_heart_0)
    /\ osc_message = NoMessage
    /\ presence_text = ""
    /\ frames_read = 0
    /\ pushed = <<>>
    /\ no_peak_run = [band \in Bands |-> 0]
    /\ appended_at_run = [band \in Bands |-> -1]
    /\ timer_ticks = 0
    /\ config_changes = 0
    /\ last_callback = [name |-> "none"]

\* lines 882-883: both rate series start as zeros
Init ==
    /\ InitExceptRates
    /\ breathing_rate_estimation_value = Zeros(buffer_data_size)
    /\ heart_rate_estimation_value = Zeros(buffer_data_size)


(***************************************************************************)
(* The producer thread, read_data.                                         *)
(***************************************************************************)
\* data_queue.put(frame), for a frame given by its range profile; the queue
\* has no maxsize, so put never blocks
ReadData(frame) ==
    /\ data_queue' = Append(data_queue, frame)
    /\ frames_read' = frames_read + 1
    /\ UNCHANGED <<appVars, stageVars>>
    /\ UNCHANGED <<process_thread, localVars, slowTimeVars, filterVars,
                   estimateVars, rateVars, appended_at_run, gateVars,
                   breathingBandVars, heartBandVars, plotVars, callbackVars>>

(***************************************************************************)
(* One cycle of the processing thread, RadarDataProcessor.process_data.    *)
(***************************************************************************)
\* lines 175-176: the timestamp buffer
TimeStampAfter(time_passed) ==
    LET rolled == Roll(radar_time_stamp, 1)
    IN  SetLast(rolled, rolled[Len(rolled) - 1] + time_passed)

\* lines 190-191 and 194-195: the slice of the range profile inside the gate
GateSlice(profile_abs) ==
    PySlice(profile_abs, RangeIndex(object_distance_start_range),
            RangeIndex(object_distance_stop_range))

\* lines 193-195: the buffer of range-peak indices after the cycle
PeakIndicesAfter(profile_abs) ==
    SetLast(Roll(range_profile_peak_indices, 1),
            ArgMax(GateSlice(profile_abs))
                + RangeIndex(object_distance_start_range))

\* line 197: int(np.mean(range_profile_peak_indices[-2 * sample_rate:]))
TrackedBin(peak_indices) ==
    LET recent == LastK(peak_indices, 2 * vital_signs_sample_rate)
    IN  Trunc(SumSeq(recent), Len(recent))

\* lines 210-212 with counter = 1: the wrapped-phase buffer
WrappedAfter(sample) ==
    SetLast(Roll(wrapped_phase_plot, 1), ComplexAngle(sample))

\* the buffer shifted by two positions for one sample
UnwrappedAfterShiftedTwice(sample) ==
    LET appended == SetLast(Roll(unwrapped_phase_plot, 2), ComplexAngle(sample))
    IN  SetLastK(appended, Unwrap(LastK(appended, processing_data_size)))

\* lines 214-218: the unwrapped-phase buffer; the trailing processing window
\* is unwrapped again and written back
UnwrappedAfter(sample) ==
    LET appended == SetLast(Roll(unwrapped_phase_plot, 1), ComplexAngle(sample))
    IN  SetLastK(appended, Unwrap(LastK(appended, processing_data_size)))

\* lines 184-218 when the gate slice is not empty
SlowTimeUpdate(profile) ==
    LET profile_abs == [i \in 1..Len(profile) |-> ComplexAbs(profile[i])]
        peak_indices == PeakIndicesAfter(profile_abs)
        tracked == TrackedBin(peak_indices)
        sample == PyIndex(profile, tracked)
    IN  /\ range_fft_abs' = profile_abs
        /\ range_profile_peak_indices' = peak_indices
        /\ range_profile_peak_index' = tracked
        /\ slow_time_buffer_data' = SetLast(Roll(slow_time_buffer_data, 1), sample)
        /\ I_Q_envelop' = SetLast(Roll(I_Q_envelop, 1), ComplexAbs(sample))
        /\ wrapped_phase_plot' = WrappedAfter(sample)
        /\ unwrapped_phase_plot' = UnwrappedAfter(sample)
        /\ pushed' = Append(pushed, sample)

\* lines 184-194 when the gate slice is empty: np.argmax raises ValueError
\* after the IQ, envelope and peak-index buffers were rolled
SlowTimeRaises(profile) ==
    /\ range_fft_abs' = [i \in 1..Len(profile) |-> ComplexAbs(profile[i])]
    /\ slow_time_buffer_data' = Roll(slow_time_buffer_data, 1)
    /\ I_Q_envelop' = Roll(I_Q_envelop, 1)
    /\ range_profile_peak_indices' = Roll(range_profile_peak_indices, 1)
    /\ UNCHANGED <<range_profile_peak_index, wrapped_phase_plot,
                   unwrapped_phase_plot, pushed>>

\* each filtered buffer rewritten over its whole trailing window
FilterUpdateWholeWindow(breathing_window, heart_window) ==
    /\ filtered_breathing' = breathing_window
    /\ filtered_heart' = heart_window
    /\ filtered_breathing_plot' =
           SetLastK(Roll(filtered_breathing_plot, counter + 1), breathing_window)
    /\ filtered_heart_plot' =
           SetLastK(Roll(filtered_heart_plot, counter + 1), heart_window)

\* lines 224-240, the counter having been incremented at line 206: the
\* window is filtered, and each filtered buffer is rolled by the counter and
\* takes the last counter values of its freshly filtered window
FilterUpdate(breathing_window, heart_window) ==
    /\ filtered_breathing' = breathing_window
    /\ filtered_heart' = heart_window
    /\ filtered_breathing_plot' =
           SetLastK(Roll(filtered_breathing_plot, counter + 1),
                    LastK(breathing_window, counter + 1))
    /\ filtered_heart_plot' =
           SetLastK(Roll(filtered_heart_plot, counter + 1),
                    LastK(heart_window, counter + 1))

\* an index series that records the search result as it is, 0 included
IndexBufferAfterNoHold(index_buffer, rate_index) ==
    SetLast(Roll(index_buffer, 1), rate_index)

\* lines 259-264 and 266-271: roll, hold the previous index, and overwrite
\* it when a peak was found
IndexBufferAfter(index_buffer, rate_index) ==
    LET rolled == Roll(index_buffer, 1)
        held == SetLast(rolled, rolled[Len(rolled) - 1])
    IN  IF rate_index # 0 THEN SetLast(held, rate_index) ELSE held

\* lines 250-271
EstimateUpdate(spectrum_br, spectrum_hr) ==
    LET found_br == find_signal_peaks(spectrum_br, index_start_breathing,
                                      index_end_breathing)
        found_hr == find_signal_peaks(spectrum_hr, index_start_heart,
                                      index_end_heart)
    IN  /\ breathing_fft' = spectrum_br
        /\ heart_fft' = spectrum_hr
        /\ rate_index_br' = found_br
        /\ rate_index_hr' = found_hr
        /\ breathing_rate_estimation_index' =
               IndexBufferAfter(breathing_rate_estimation_index, found_br)
        /\ heart_rate_estimation_index' =
               IndexBufferAfter(heart_rate_estimation_index, found_hr)
        /\ no_peak_run' =
               [band \in Bands |->
                   LET found == IF band = "breathing" THEN found_br ELSE found_hr
                   IN  IF found = 0 THEN no_peak_run[band] + 1 ELSE 0]
        /\ appended_at_run' =
               [band \in Bands |->
                   LET found == IF band = "breathing" THEN found_br ELSE found_hr
                   IN  IF found = 0 THEN appended_at_run[band] ELSE -1]

\* lines 206, 276 and 331: the counter is incremented, the breath-cycle
\* detector runs if the counter is a multiple of detection_interval, and the
\* counter is set back to 0
DetectUpdate(cycle) ==
    /\ detection_cycles' =
           IF (counter + 1) % detection_interval = 0
           THEN Append(detection_cycles, cycle)
           ELSE detection_cycles
    /\ counter' = 0

\* lines 168-331: the queue is not empty, a frame is dequeued and the
\* pipeline runs on it
ProcessData(time_passed, breathing_window, heart_window, spectrum_br, spectrum_hr) ==
    /\ process_thread = "running"
    /\ pc = "idle"
    /\ ~empty(data_queue)
    /\ radar_time_stamp' = TimeStampAfter(time_passed)
    /\ data_queue' = calc_range_fft(data_queue).queue
    /\ range_fft_antennas_buffer' = calc_range_fft(data_queue).result
    /\ LET profile == calc_range_fft(data_queue).result.items
           profile_abs == [i \in 1..Len(profile) |-> ComplexAbs(profile[i])]
       IN  IF GateSlice(profile_abs) # <<>>
           THEN /\ SlowTimeUpdate(profile)
                /\ FilterUpdate(breathing_window, heart_window)
                /\ EstimateUpdate(spectrum_br, spectrum_hr)
                /\ DetectUpdate(Len(pushed) + 1)
                /\ UNCHANGED <<process_thread, stageVars>>
           ELSE /\ SlowTimeRaises(profile)
                /\ process_thread' = "dead"
                /\ pc' = "rolled"
                /\ shifted' = {"radar_time_stamp"} \cup RolledFirst
                /\ written' = {"radar_time_stamp"}
                /\ UNCHANGED <<filterVars, estimateVars, appended_at_run,
                               detectorVars, taps_used>>
    /\ UNCHANGED appVars
    /\ UNCHANGED <<frames_read, rateVars, gateVars, breathingBandVars,
                   heartBandVars, plotVars, callbackVars>>

\* lines 175-183 entered with an empty queue, the case calc_range_fft tests
\* for: the timestamp buffer is rolled and written, the tuple (None, None)
\* passes "is not None", and np.abs of it raises TypeError
ProcessEmptyQueue(time_passed) ==
    /\ process_thread = "running"
    /\ data_queue = <<>>
    /\ radar_time_stamp' = TimeStampAfter(time_passed)
    /\ data_queue' = calc_range_fft(data_queue).queue
    /\ range_fft_antennas_buffer' = calc_range_fft(data_queue).result
    /\ process_thread' = IF IsNotNone(calc_range_fft(data_queue).result)
                         THEN "dead"
                         ELSE process_thread
    /\ UNCHANGED <<appVars, stageVars>>
    /\ UNCHANGED <<frames_read, detectorVars, slow_time_buffer_data, I_Q_envelop,
                   wrapped_phase_plot, unwrapped_phase_plot,
                   range_profile_peak_indices, range_fft_abs,
                   range_profile_peak_index, pushed, filterVars, estimateVars,
                   rateVars, appended_at_run, gateVars, breathingBandVars,
                   heartBandVars, plotVars, callbackVars>>

(***************************************************************************)
(* The same cycle statement by statement. The processing thread holds no   *)
(* lock, so the timer callback and the configuration callbacks of the main *)
(* thread can run between any two of these steps.                          *)
(***************************************************************************)
\* lines 175-178: the timestamp is rolled and written and the front end
\* takes the frame
BeginCycle(time_passed) ==
    /\ process_thread = "running"
    /\ pc = "idle"
    /\ ~empty(data_queue)
    /\ radar_time_stamp' = TimeStampAfter(time_passed)
    /\ data_queue' = calc_range_fft(data_queue).queue
    /\ range_fft_antennas_buffer' = calc_range_fft(data_queue).result
    /\ pc' = "front_end"
    /\ shifted' = {"radar_time_stamp"}
    /\ written' = {"radar_time_stamp"}
    /\ UNCHANGED <<frames_read, process_thread, appVars, taps_used, detectorVars,
                   slow_time_buffer_data, I_Q_envelop, wrapped_phase_plot,
                   unwrapped_phase_plot, range_profile_peak_indices,
                   range_fft_abs, range_profile_peak_index, pushed, filterVars,
                   estimateVars, rateVars, appended_at_run, gateVars,
                   breathingBandVars, heartBandVars, plotVars, callbackVars>>

\* lines 183-193: the magnitudes are taken and the IQ, envelope and
\* peak-index buffers are rolled
RollSlowTime ==
    /\ process_thread = "running"
    /\ pc = "front_end"
    /\ SlowTimeRaises(range_fft_antennas_buffer.items)
    /\ pc' = "rolled"
    /\ shifted' = shifted \cup RolledFirst
    /\ UNCHANGED <<queueVars, process_thread, appVars, taps_used, written,
                   localVars, radar_time_stamp, filterVars, estimateVars,
                   rateVars, appended_at_run, gateVars, breathingBandVars,
                   heartBandVars, plotVars, callbackVars>>

\* lines 194-218: the newest slots of the rolled buffers are written and
\* the phase buffers are rolled and written; np.argmax raises on an empty
\* gate slice
WriteSlowTime ==
    /\ process_thread = "running"
    /\ pc = "rolled"
    /\ IF GateSlice(range_fft_abs) # <<>>
       THEN LET profile == range_fft_antennas_buffer.items
                peak_indices ==
                    SetLast(range_profile_peak_indices,
                            ArgMax(GateSlice(range_fft_abs))
                                + RangeIndex(object_distance_start_range))
                tracked == TrackedBin(peak_indices)
                sample == PyIndex(profile, tracked)
            IN  /\ range_profile_peak_indices' = peak_indices
                /\ range_profile_peak_index' = tracked
                /\ slow_time_buffer_data' = SetLast(slow_time_buffer_data, sample)
                /\ I_Q_envelop' = SetLast(I_Q_envelop, ComplexAbs(sample))
                /\ wrapped_phase_plot' = WrappedAfter(sample)
                /\ unwrapped_phase_plot' = UnwrappedAfter(sample)
                /\ pushed' = Append(pushed, sample)
                /\ pc' = "slow_time"
                /\ shifted' = shifted \cup PhaseBuffers
                /\ written' = written \cup RolledFirst \cup PhaseBuffers
                /\ UNCHANGED process_thread
       ELSE /\ process_thread' = "dead"
            /\ UNCHANGED <<range_profile_peak_indices, range_profile_peak_index,
                           slow_time_buffer_data, I_Q_envelop,
                           wrapped_phase_plot, unwrapped_phase_plot, pushed, pc,
                           shifted, written>>
    /\ UNCHANGED <<queueVars, appVars, taps_used, localVars, radar_time_stamp,
                   range_fft_abs, filterVars, estimateVars, rateVars,
                   appended_at_run, gateVars, breathingBandVars, heartBandVars,
                   plotVars, callbackVars>>

\* lines 224-240: both windows are filtered with the taps of this moment
\* and the filtered buffers are rolled and written
FilterStage(breathing_window, heart_window) ==
    /\ process_thread = "running"
    /\ pc = "slow_time"
    /\ FilterUpdate(breathing_window, heart_window)
    /\ taps_used' = [breathing |-> breathing_b, heart |-> heart_b]
    /\ pc' = "filtered"
    /\ shifted' = shifted \cup FilteredBuffers
    /\ written' = written \cup FilteredBuffers
    /\ UNCHANGED <<queueVars, process_thread, appVars, localVars, slowTimeVars,
                   estimateVars, rateVars, appended_at_run, gateVars,
                   breathingBandVars, heartBandVars, plotVars, callbackVars>>

\* lines 250-259: both spectra are computed and the breathing peak-index
\* buffer is rolled
RollIndex(spectrum_br, spectrum_hr) ==
    /\ process_thread = "running"
    /\ pc = "filtered"
    /\ breathing_fft' = spectrum_br
    /\ heart_fft' = spectrum_hr
    /\ breathing_rate_estimation_index' = Roll(breathing_rate_estimation_index, 1)
    /\ pc' = "index_rolled"
    /\ UNCHANGED <<queueVars, process_thread, appVars, taps_used, shifted,
                   written, localVars, slowTimeVars, filterVars,
                   heart_rate_estimation_index, rate_index_br, rate_index_hr,
                   no_peak_run, rateVars, appended_at_run, gateVars,
                   breathingBandVars, heartBandVars, plotVars, callbackVars>>

\* lines 260-331: the rolled breathing buffer holds its previous index, both
\* bands are searched between the search-index bounds of this moment, the
\* heart buffer is rolled and written, and the detector counter runs
FinishEstimate ==
    /\ process_thread = "running"
    /\ pc = "index_rolled"
    /\ LET found_br == find_signal_peaks(breathing_fft, index_start_breathing,
                                         index_end_breathing)
           found_hr == find_signal_peaks(heart_fft, index_start_heart,
                                         index_end_heart)
           rolled == breathing_rate_estimation_index
           held == SetLast(rolled, rolled[Len(rolled) - 1])
       IN  /\ rate_index_br' = found_br
           /\ rate_index_hr' = found_hr
           /\ breathing_rate_estimation_index' =
                  IF found_br # 0 THEN SetLast(held, found_br) ELSE held
           /\ heart_rate_estimation_index' =
                  IndexBufferAfter(heart_rate_estimation_index, found_hr)
           /\ no_peak_run' =
                  [band \in Bands |->
                      LET found == IF band = "breathing" THEN found_br
                                   ELSE found_hr
                      IN  IF found = 0 THEN no_peak_run[band] + 1 ELSE 0]
           /\ appended_at_run' =
                  [band \in Bands |->
                      LET found == IF band = "breathing" THEN found_br
                                   ELSE found_hr
                      IN  IF found = 0 THEN appended_at_run[band] ELSE -1]
    /\ DetectUpdate(Len(pushed))
    /\ pc' = "idle"
    /\ taps_used' = NoTaps
    /\ shifted' = {}
    /\ written' = {}
    /\ UNCHANGED <<queueVars, process_thread, appVars, range_fft_antennas_buffer,
                   slowTimeVars, filterVars, breathing_fft, heart_fft, rateVars,
                   gateVars, breathingBandVars, heartBandVars, plotVars,
                   callbackVars>>

(***************************************************************************)
(* The timer callback, update_plots.                                       *)
(***************************************************************************)
\* lines 383-397 and 416-513
UpdatePlots ==
    /\ app_running
    /\ timer_ticks < MaxTicks
    /\ timer_ticks' = timer_ticks + 1
    /\ breathing_rate_estimation_value' =
           UpdateRateValue(breathing_rate_estimation_value,
                           breathing_rate_estimation_index,
                           estimation_index_breathing)
    /\ heart_rate_estimation_value' =
           UpdateRateValue(heart_rate_estimation_value,
                           heart_rate_estimation_index, estimation_index_heart)
    /\ appended_at_run' =
           [band \in Bands |->
               LET index_buffer == IF band = "breathing"
                                   THEN breathing_rate_estimation_index
                                   ELSE heart_rate_estimation_index
                   estimation_index == IF band = "breathing"
                                       THEN estimation_index_breathing
                                       ELSE estimation_index_heart
               IN  IF index_buffer[estimation_index + 1] > 0
                   THEN no_peak_run[band]
                   ELSE appended_at_run[band]]
    /\ osc_message' =
           TelemetryMessage(filtered_breathing_plot, I_Q_envelop,
                            breathing_rate_estimation_value',
                            heart_rate_estimation_value')
    /\ presence_text' =
           IF PresenceDetected(filtered_breathing_plot, I_Q_envelop)
           THEN IF RLess(RInt(0),
                         Mean(LastK(breathing_rate_estimation_value',
                                    estimation_time * vital_signs_sample_rate)))
                THEN "Breathing Rate"
                ELSE presence_text
           ELSE "No person detected"
    /\ UNCHANGED <<appVars, stageVars>>
    /\ UNCHANGED <<queueVars, process_thread, localVars, slowTimeVars, filterVars,
                   estimateVars, gateVars, breathingBandVars, heartBandVars,
                   callbackVars>>

(***************************************************************************)
(* The configuration callbacks.                                            *)
(***************************************************************************)
\* lines 565-569: the range gate follows the region, whatever it is
region_changed(region) ==
    /\ app_running
    /\ config_changes < MaxConfigChanges
    /\ config_changes' = config_changes + 1
    /\ object_distance_start_range' = region[1]
    /\ object_distance_stop_range' = region[2]
    /\ last_callback' = [name |-> "range", region |-> region, raised |-> FALSE]
    /\ UNCHANGED <<appVars, stageVars>>
    /\ UNCHANGED <<queueVars, process_thread, localVars, slowTimeVars, filterVars,
                   estimateVars, rateVars, appended_at_run, breathingBandVars,
                   heartBandVars, plotVars>>

\* lines 665-675.  The edges are stored before firwin is called, so when
\* firwin raises they stay changed while the taps and the bounds do not.
linear_region_breathing_changed(region) ==
    /\ app_running
    /\ config_changes < MaxConfigChanges
    /\ config_changes' = config_changes + 1
    /\ IF BandAccepted(region)
       THEN /\ low_breathing' = region[1]
            /\ high_breathing' = region[2]
            /\ IF firwin_accepts(region[1], region[2])
               THEN /\ breathing_b' = firwin(filter_order, region[1], region[2])
                    /\ index_start_breathing' = SearchIndex(region[1])
                    /\ index_end_breathing' = SearchIndex(region[2])
               ELSE UNCHANGED <<breathing_b, index_start_breathing,
                                index_end_breathing>>
       ELSE UNCHANGED breathingBandVars
    /\ last_callback' =
           [name |-> "breathing", region |-> region,
            raised |-> BandAccepted(region)
                          /\ ~firwin_accepts(region[1], region[2])]
    /\ UNCHANGED <<appVars, stageVars>>
    /\ UNCHANGED <<queueVars, process_thread, localVars, slowTimeVars, filterVars,
                   estimateVars, rateVars, appended_at_run, gateVars,
                   heartBandVars, plotVars>>

\* lines 682-691
linear_region_heart_changed(region) ==
    /\ app_running
    /\ config_changes < MaxConfigChanges
    /\ config_changes' = config_changes + 1
    /\ IF BandAccepted(region)
       THEN /\ low_heart' = region[1]
            /\ high_heart' = region[2]
            /\ IF firwin_accepts(region[1], region[2])
               THEN /\ heart_b' = firwin(filter_order, region[1], region[2])
                    /\ index_start_heart' = SearchIndex(region[1])
                    /\ index_end_heart' = SearchIndex(region[2])
               ELSE UNCHANGED <<heart_b, index_start_heart, index_end_heart>>
       ELSE UNCHANGED heartBandVars
    /\ last_callback' =
           [name |-> "heart", region |-> region,
            raised |-> BandAccepted(region)
                          /\ ~firwin_accepts(region[1], region[2])]
    /\ UNCHANGED <<appVars, stageVars>>
    /\ UNCHANGED <<queueVars, process_thread, localVars, slowTimeVars, filterVars,
                   estimateVars, rateVars, appended_at_run, gateVars,
                   breathingBandVars, plotVars>>

(***************************************************************************)
(* The end of the event loop.                                              *)
(***************************************************************************)
\* line 917, sys.exit(app.exec_()): the window is closed, the event loop
\* returns and the main thread exits; the timer and the callbacks go with
\* the loop, and nothing is told to the two threads
QuitApplication ==
    /\ app_running
    /\ app_running' = FALSE
    /\ cycles_at_quit' = Len(pushed)
    /\ UNCHANGED stageVars
    /\ UNCHANGED <<queueVars, process_thread, localVars, slowTimeVars, filterVars,
                   estimateVars, rateVars, appended_at_run, gateVars,
                   breathingBandVars, heartBandVars, plotVars, callbackVars>>

(***************************************************************************)
(* Inputs.                                                                 *)
(***************************************************************************)
\* a range profile with one strong reflector z at a bin and a weak one
\* everywhere else
Profile(bin, z) ==
    [i \in 1..RangeBins |-> IF i = bin + 1 THEN z ELSE <<0, 1>>]

Frames == {Profile(1, <<3, 0>>), Profile(2, <<-3, 0>>)}

\* seconds between two cycles, time.time() - start_time
TimeSteps == {1}

\* a spectrum without a local maximum, and one with a single spike
FlatSpectrum == [i \in 1..fft_size_vital_signs |-> 1]

Spike(bin, height) ==
    [i \in 1..fft_size_vital_signs |-> IF i = bin + 1 THEN height ELSE 1]

\* a filtered window by its newest value: the filters start from rest on
\* every window, so its earlier values are not the ones earlier cycles got
FilteredWindow(newest) ==
    [i \in 1..processing_data_size |->
        IF i = processing_data_size THEN newest ELSE newest + 1]

\* what the numeric kernels make of one frame: the filtered breathing and
\* heart windows, given by their newest values, and the breathing and heart
\* spectra
Scene(newest_breathing, newest_heart, spectrum_br, spectrum_hr) ==
    [filtered_breathing |-> FilteredWindow(newest_breathing),
     filtered_heart |-> FilteredWindow(newest_heart),
     spectrum_br |-> spectrum_br, spectrum_hr |-> spectrum_hr]

Scenes ==
    {Scene(0, 0, FlatSpectrum, FlatSpectrum),
     Scene(3, 2, Spike(2, 3), Spike(3, 3))}

\* regions the operator can set: LinearRegionItem.getRegion() returns the
\* two handles in ascending order
GateRegions == {<<2, 8>>, <<5, 5>>}

BandRegions == {<<1, 11>>, <<4, 4>>, <<0, 13>>}

(***************************************************************************)
(* The system: producer, processing thread, timer and operator.            *)
(***************************************************************************)
Cycle(scenes) ==
    \E time_passed \in TimeSteps, scene \in scenes :
        ProcessData(time_passed, scene.filtered_breathing, scene.filtered_heart,
                    scene.spectrum_br, scene.spectrum_hr)

Next ==
    \/ /\ frames_read < MaxFrames
       /\ Len(data_queue) < MaxQueue
       /\ \E frame \in Frames : ReadData(frame)
    \/ Cycle(Scenes)
    \/ UpdatePlots
    \/ \E region \in GateRegions : region_changed(region)
    \/ \E region \in BandRegions : linear_region_breathing_changed(region)
    \/ \E region \in BandRegions : linear_region_heart_changed(region)

Spec == Init /\ [][Next]_vars

(***************************************************************************)
(* The rate pipeline alone: one reflector, spectra with and without a      *)
(* peak, and the timer.                                                    *)
(***************************************************************************)
HoldFrames == {Profile(1, <<3, 0>>)}

HoldScenes ==
    {Scene(0, 0, FlatSpectrum, FlatSpectrum),
     Scene(3, 2, Spike(2, 3), Spike(3, 3)),
     Scene(3, 2, Spike(3, 3), FlatSpectrum)}

NextHold ==
    \/ /\ frames_read < MaxHoldFrames
       /\ Len(data_queue) < MaxQueue
       /\ \E frame \in HoldFrames : ReadData(frame)
    \/ Cycle(HoldScenes)
    \/ UpdatePlots

SpecHold == Init /\ [][NextHold]_vars

(***************************************************************************)
(* The peak search alone: spectra with a spike at every bin around the     *)
(* band, with two spikes, and without any, under both breathing bands.     *)
(***************************************************************************)
TwoSpikes(bin, height, other_bin, other_height) ==
    [i \in 1..fft_size_vital_signs |->
        IF i = other_bin + 1 THEN other_height ELSE Spike(bin, height)[i]]

PeakSpectra ==
    {FlatSpectrum} \cup {Spike(bin, 3) : bin \in 0..5}
        \cup {TwoSpikes(1, 2, 3, 3), TwoSpikes(1, 3, 3, 2)}

PeakScenes == {Scene(0, 0, spectrum, spectrum) : spectrum \in PeakSpectra}

PeakBandRegions == {<<1, 11>>, <<2, 3>>}

NextPeak ==
    \/ /\ frames_read < MaxPeakFrames
       /\ Len(data_queue) < MaxQueue
       /\ \E frame \in HoldFrames : ReadData(frame)
    \/ Cycle(PeakScenes)
    \/ \E region \in PeakBandRegions : linear_region_breathing_changed(region)

SpecPeak == Init /\ [][NextPeak]_vars

(***************************************************************************)
(* The presence gate and the telemetry: filtered breathing values of       *)
(* either sign, strong and weak reflections, and rate series that hold     *)
(* what earlier timer calls appended.                                      *)
(***************************************************************************)
\* round(60 * x_axis[...]) - 2 is -1 at index 1 of the shipped axis, 0 at
\* index 2 and positive above
RateSeries ==
    {Zeros(buffer_data_size),
     [i \in 1..buffer_data_size |-> 0 - 1],
     [i \in 1..buffer_data_size |-> 6]}

InitPresence ==
    /\ InitExceptRates
    /\ breathing_rate_estimation_value \in RateSeries
    /\ heart_rate_estimation_value = breathing_rate_estimation_value

PresenceScenes ==
    {Scene(0 - 3, 0, FlatSpectrum, FlatSpectrum),
     Scene(0, 0, FlatSpectrum, FlatSpectrum),
     Scene(1, 2, Spike(2, 3), Spike(3, 3))}

NextPresence ==
    \/ /\ frames_read < MaxPresenceFrames
       /\ Len(data_queue) < MaxQueue
       /\ \E frame \in Frames : ReadData(frame)
    \/ Cycle(PresenceScenes)
    \/ UpdatePlots

SpecPresence == InitPresence /\ [][NextPresence]_vars

(***************************************************************************)
(* The configuration callbacks alone: band regions on both sides of every  *)
(* limit the guard and firwin draw.                                        *)
(***************************************************************************)
ConfigBandRegions ==
    {<<1, 11>>, <<5, 7>>, <<6, 11>>, <<3, 12>>, <<0, 5>>, <<4, 4>>, <<0, 13>>}

NextConfig ==
    \/ /\ frames_read < MaxConfigFrames
       /\ Len(data_queue) < MaxQueue
       /\ \E frame \in HoldFrames : ReadData(frame)
    \/ Cycle(Scenes)
    \/ UpdatePlots
    \/ \E region \in ConfigBandRegions : linear_region_breathing_changed(region)
    \/ \E region \in ConfigBandRegions : linear_region_heart_changed(region)

SpecConfig == Init /\ [][NextConfig]_vars

(***************************************************************************)
(* Enough frames for the breath-cycle detector's interval to elapse.       *)
(***************************************************************************)
NextDetect ==
    \/ /\ frames_read < MaxDetectFrames
       /\ Len(data_queue) < MaxQueue
       /\ \E frame \in HoldFrames : ReadData(frame)
    \/ Cycle(HoldScenes)

SpecDetect == Init /\ [][NextDetect]_vars

(***************************************************************************)
(* The producer running ahead of the processing thread: nothing but the    *)
(* number of frames read limits the queue.                                 *)
(***************************************************************************)
NextBacklog ==
    \/ frames_read < MaxBacklog /\ \E frame \in HoldFrames : ReadData(frame)
    \/ Cycle(HoldScenes)

SpecBacklog == Init /\ [][NextBacklog]_vars

(***************************************************************************)
(* The front end called on every queue, the empty one included.            *)
(***************************************************************************)
NextFrontEnd ==
    \/ /\ frames_read < MaxFrontEndFrames
       /\ Len(data_queue) < MaxQueue
       /\ \E frame \in Frames : ReadData(frame)
    \/ Cycle(HoldScenes)
    \/ \E time_passed \in TimeSteps : ProcessEmptyQueue(time_passed)

SpecFrontEnd == Init /\ [][NextFrontEnd]_vars

(***************************************************************************)
(* The window is closed while frames arrive and wait in the queue.         *)
(***************************************************************************)
NextShutdown ==
    \/ frames_read < MaxShutdownFrames /\ \E frame \in HoldFrames : ReadData(frame)
    \/ Cycle(HoldScenes)
    \/ UpdatePlots
    \/ QuitApplication

SpecShutdown == Init /\ [][NextShutdown]_vars

(***************************************************************************)
(* Phases that jump by more than half a turn from one sample to the next.  *)
(***************************************************************************)
UnwrapFrames ==
    {Profile(1, <<3, 0>>), Profile(1, <<0 - 3, 0>>), Profile(1, <<0, 0 - 3>>)}

UnwrapScenes == {Scene(0, 0, FlatSpectrum, FlatSpectrum)}

NextUnwrap ==
    \/ /\ frames_read < MaxUnwrapFrames
       /\ Len(data_queue) < MaxQueue
       /\ \E frame \in UnwrapFrames : ReadData(frame)
    \/ Cycle(UnwrapScenes)

SpecUnwrap == Init /\ [][NextUnwrap]_vars

(***************************************************************************)
(* Producer and processing thread under fair scheduling: the processing    *)
(* thread's loop polls the queue every millisecond, so a cycle that stays  *)
(* possible is run.                                                        *)
(***************************************************************************)
NextLive ==
    \/ /\ frames_read < MaxLiveFrames
       /\ Len(data_queue) < MaxQueueLive
       /\ \E frame \in HoldFrames : ReadData(frame)
    \/ Cycle(HoldScenes)

\* a cycle as the queue sees it: in this system the steps that take a frame
\* off the queue are the cycles, and a cycle is possible whenever this is
Dequeue ==
    /\ process_thread = "running"
    /\ ~empty(data_queue)
    /\ data_queue' = calc_range_fft(data_queue).queue

SpecLive == Init /\ [][NextLive]_vars /\ WF_data_queue(Dequeue)

(***************************************************************************)
(* The timer callback between the statements of a cycle: one reflector and *)
(* a spectrum with a peak in each band.                                    *)
(***************************************************************************)
RaceScenes == {Scene(3, 2, Spike(2, 3), Spike(3, 3))}

NextRace ==
    \/ /\ frames_read < MaxRaceFrames
       /\ Len(data_queue) < MaxQueue
       /\ \E frame \in HoldFrames : ReadData(frame)
    \/ \E time_passed \in TimeSteps : BeginCycle(time_passed)
    \/ RollSlowTime
    \/ WriteSlowTime
    \/ \E scene \in RaceScenes :
           FilterStage(scene.filtered_breathing, scene.filtered_heart)
    \/ \E scene \in RaceScenes : RollIndex(scene.spectrum_br, scene.spectrum_hr)
    \/ FinishEstimate
    \/ UpdatePlots

SpecRace == Init /\ [][NextRace]_vars

(***************************************************************************)
(* A band callback between the statements of a cycle.                      *)
(***************************************************************************)
RaceBandRegions == {<<1, 11>>, <<5, 7>>}

NextBandRace ==
    \/ /\ frames_read < MaxBandRaceFrames
       /\ Len(data_queue) < MaxQueue
       /\ \E frame \in HoldFrames : ReadData(frame)
    \/ \E time_passed \in TimeSteps : BeginCycle(time_passed)
    \/ RollSlowTime
    \/ WriteSlowTime
    \/ \E scene \in RaceScenes :
           FilterStage(scene.filtered_breathing, scene.filtered_heart)
    \/ \E scene \in RaceScenes : RollIndex(scene.spectrum_br, scene.spectrum_hr)
    \/ FinishEstimate
    \/ \E region \in RaceBandRegions : linear_region_breathing_changed(region)
    \/ \E region \in RaceBandRegions : linear_region_heart_changed(region)

SpecBandRace == Init /\ [][NextBandRace]_vars

(***************************************************************************)
(* Properties.                                                             *)
(***************************************************************************)
\* a step of the processing thread that ran the whole pipeline on a frame
CycleDone == Len(pushed') = Len(pushed) + 1

\* a step of the timer callback
TimerTick == timer_ticks' = timer_ticks + 1

Newest(buf) == buf[Len(buf)]

\* C1: every ring buffer (timestamps, IQ samples, envelope, wrapped and
\* unwrapped phase, both filtered signals, range-peak indices, both rate
\* index series and both rate value series) has exactly buffer_data_size
\* entries in every reachable state, whatever frames were processed, timer
\* calls made and configuration changes applied.
BufferLengthsFixed ==
    \A i \in DOMAIN RingBuffers : Len(RingBuffers[i]) = buffer_data_size

\* frames were processed, a rate was appended and the configuration changed
BufferLengthsWitness ==
    /\ Len(pushed) >= 2
    /\ \E band \in Bands : appended_at_run[band] >= 0
    /\ config_changes >= 1

\* C2: after N processed frames the newest N entries of the IQ buffer are
\* the N samples pushed, oldest first, and the newest N entries of the
\* envelope and wrapped-phase buffers are their magnitudes and angles.
NewestArePushed ==
    LET n == Len(pushed)
    IN  /\ LastK(slow_time_buffer_data, n) = pushed
        /\ LastK(I_Q_envelop, n) = [i \in 1..n |-> ComplexAbs(pushed[i])]
        /\ LastK(wrapped_phase_plot, n) = [i \in 1..n |-> ComplexAngle(pushed[i])]

\* C3: in a cycle whose peak search finds no peak in a band, the newest
\* entry of that band's index series equals the previous newest entry, and
\* a newest entry that was a detection never becomes 0 again.
HoldOnNoPeak ==
    [][CycleDone =>
          /\ rate_index_br' = 0 =>
                 Newest(breathing_rate_estimation_index')
                     = Newest(breathing_rate_estimation_index)
          /\ rate_index_hr' = 0 =>
                 Newest(heart_rate_estimation_index')
                     = Newest(heart_rate_estimation_index)
          /\ Newest(breathing_rate_estimation_index) # 0 =>
                 Newest(breathing_rate_estimation_index') # 0
          /\ Newest(heart_rate_estimation_index) # 0 =>
                 Newest(heart_rate_estimation_index') # 0]_vars

\* a detection is being held through a cycle without a peak
HoldOnNoPeakWitness ==
    /\ no_peak_run["breathing"] >= 1
    /\ rate_index_br = 0
    /\ Newest(breathing_rate_estimation_index) # 0

\* the entries of an index series the rate is averaged over
RateWindow(index_buffer, estimation_index) ==
    SubSeq(index_buffer, estimation_index + 1, Len(index_buffer))

RateWindowLength == buffer_data_size - estimation_index_breathing

\* the timer callback appends a rate for a band when the oldest entry of
\* the band's rate window is a detection
AppendsBreathing == breathing_rate_estimation_index[estimation_index_breathing + 1] > 0

AppendsHeart == heart_rate_estimation_index[estimation_index_heart + 1] > 0

\* the value the rate axis gives for a rounded index r, less 2:
\* round(60 * fs * (2 r + 1) / (2 (fft_size - 1))) - 2
RateOfIndex(r) ==
    RoundHalfEven(60 * vital_signs_sample_rate * (2 * r + 1),
                  2 * (fft_size_vital_signs - 1)) - 2

\* C4 as stated: during a run of cycles without a peak, every rate the
\* timer appends equals the rate appended last, which goes back to the
\* last detection.
RateConstantInRun ==
    [][TimerTick =>
          /\ (AppendsBreathing /\ no_peak_run["breathing"] >= 1
                  /\ appended_at_run["breathing"] >= 0) =>
                 Newest(breathing_rate_estimation_value')
                     = Newest(breathing_rate_estimation_value)
          /\ (AppendsHeart /\ no_peak_run["heart"] >= 1
                  /\ appended_at_run["heart"] >= 0) =>
                 Newest(heart_rate_estimation_value')
                     = Newest(heart_rate_estimation_value)]_vars

\* C4, amended: once a run of cycles without a peak has lasted for one
\* cycle less than the rate window is long, every rate the timer appends
\* is the rate of the held index, so the series is constant from there on.
RateConstantOnceWindowFilled ==
    [][TimerTick =>
          /\ (AppendsBreathing
                  /\ no_peak_run["breathing"] >= RateWindowLength - 1) =>
                 Newest(breathing_rate_estimation_value')
                     = RateOfIndex(Newest(breathing_rate_estimation_index))
          /\ (AppendsHeart /\ no_peak_run["heart"] >= RateWindowLength - 1) =>
                 Newest(heart_rate_estimation_value')
                     = RateOfIndex(Newest(heart_rate_estimation_index))]_vars

\* a rate was appended after a run had filled the rate window
RateConstantWitness ==
    /\ appended_at_run["breathing"] >= RateWindowLength - 1
    /\ Newest(breathing_rate_estimation_value)
           = RateOfIndex(Newest(breathing_rate_estimation_index))

\* the one bin of the band index_start..index_end-1 above all its others
Dominant(spectrum, bin, index_start, index_end) ==
    /\ bin \in index_start..(index_end - 1)
    /\ \A k \in index_start..(index_end - 1) :
           k # bin => spectrum[k + 1] < spectrum[bin + 1]

BandAllEqual(spectrum, index_start, index_end) ==
    \A j, k \in index_start..(index_end - 1) : spectrum[j + 1] = spectrum[k + 1]

SpectrumBins == 0..(fft_size_vital_signs - 1)

\* a band whose bins are all equal leaves the held index in place
HeldOnEqualBand ==
    /\ BandAllEqual(breathing_fft', index_start_breathing, index_end_breathing)
           => Newest(breathing_rate_estimation_index')
                  = Newest(breathing_rate_estimation_index)
    /\ BandAllEqual(heart_fft', index_start_heart, index_end_heart)
           => Newest(heart_rate_estimation_index')
                  = Newest(heart_rate_estimation_index)

RateIsBinFrequency ==
    [][TimerTick =>
          /\ AppendsBreathing =>
                 LET window == RateWindow(breathing_rate_estimation_index,
                                          estimation_index_breathing)
                 IN  (Newest(breathing_rate_estimation_value') + 2)
                         * fft_size_vital_signs * Len(window)
                     = 60 * vital_signs_sample_rate * SumSeq(window)
          /\ AppendsHeart =>
                 LET window == RateWindow(heart_rate_estimation_index,
                                          estimation_index_heart)
                 IN  (Newest(heart_rate_estimation_value') + 2)
                         * fft_size_vital_signs * Len(window)
                     = 60 * vital_signs_sample_rate * SumSeq(window)]_vars

\* C6, amended: an appended rate is the whole number
\* round(60 * fs * (2 r + 1) / (2 (fft_size - 1))) - 2, where r is the mean
\* of the band's rate window rounded to a whole index (ties to even).
RateIsAxisValue ==
    [][TimerTick =>
          /\ AppendsBreathing =>
                 LET window == RateWindow(breathing_rate_estimation_index,
                                          estimation_index_breathing)
                 IN  Newest(breathing_rate_estimation_value')
                         = RateOfIndex(RoundHalfEven(SumSeq(window), Len(window)))
          /\ AppendsHeart =>
                 LET window == RateWindow(heart_rate_estimation_index,
                                          estimation_index_heart)
                 IN  Newest(heart_rate_estimation_value')
                         = RateOfIndex(RoundHalfEven(SumSeq(window), Len(window)))]_vars

\* a rate was appended for a window of unequal detections
RateIsAxisValueWitness ==
    LET window == RateWindow(breathing_rate_estimation_index,
                             estimation_index_breathing)
    IN  /\ appended_at_run["breathing"] = no_peak_run["breathing"]
        /\ window[1] > 0
        /\ window[1] # window[Len(window)]
        /\ Newest(breathing_rate_estimation_value)
               = RateOfIndex(RoundHalfEven(SumSeq(window), Len(window)))

\* np.var(w) > min_variance_threshold for the last PresenceWindow entries w
\* of the filtered breathing buffer, in whole numbers: with n entries of
\* sum S in units of FilteredUnit, the variance is
\* (n * sum of squares - S^2) / n^2 squared units
VarianceAbove(filtered) ==
    LET w == LastK(filtered, PresenceWindow)
        n == Len(w)
        S == SumSeq(w)
    IN  (n * SumSq(w) - S * S) * FilteredUnit[1] * FilteredUnit[1]
            * min_variance_threshold[2]
        > min_variance_threshold[1] * n * n * FilteredUnit[2] * FilteredUnit[2]

\* np.mean(w) > min_envelope_threshold for the last PresenceWindow entries w
\* of the envelope buffer, in whole numbers
EnvelopeAbove(envelope) ==
    LET w == LastK(envelope, PresenceWindow)
    IN  SumSeq(w) * EnvelopeUnit[1] * min_envelope_threshold[2]
        > min_envelope_threshold[1] * Len(w) * EnvelopeUnit[2]

\* C7: on every timer call presence is reported (flag 1) exactly when the
\* variance of the last 5 seconds of filtered breathing is above its
\* threshold and the mean of the last 5 seconds of envelope is above its
\* threshold, both strictly; otherwise flag 0 goes out and the label reads
\* "No person detected".
PresenceIffBothAbove ==
    [][TimerTick =>
          LET both == /\ VarianceAbove(filtered_breathing_plot)
                      /\ EnvelopeAbove(I_Q_envelop)
          IN  /\ osc_message'.presence = 1 <=> both
              /\ ~both => /\ osc_message'.presence = 0
                          /\ presence_text' = "No person detected"]_vars

\* presence was reported for a window with both measures above threshold
PresenceWitness ==
    /\ timer_ticks > 0
    /\ osc_message.presence = 1
    /\ VarianceAbove(filtered_breathing_plot)
    /\ EnvelopeAbove(I_Q_envelop)

\* C8: a timer call that finds no presence sends exactly breathing
\* frequency 0, heart frequency 0, both ratios 1/10 and flag 0, whatever
\* the index and rate series hold.
AbsentTelemetryFixed ==
    [][(TimerTick /\ ~(/\ VarianceAbove(filtered_breathing_plot)
                       /\ EnvelopeAbove(I_Q_envelop))) =>
          /\ osc_message'.presence = 0
          /\ osc_message'.xhz[1] = 0
          /\ osc_message'.yhz[1] = 0
          /\ 10 * osc_message'.xratio[1] = osc_message'.xratio[2]
          /\ 10 * osc_message'.yratio[1] = osc_message'.yratio[2]]_vars

\* absence was reported while the rate series held rates and the filtered
\* breathing buffer a signal
AbsentTelemetryWitness ==
    /\ timer_ticks > 0
    /\ osc_message.presence = 0
    /\ ~(VarianceAbove(filtered_breathing_plot) /\ EnvelopeAbove(I_Q_envelop))
    /\ Newest(filtered_breathing_plot) # 0
    /\ Newest(breathing_rate_estimation_value) > 0
    /\ Newest(heart_rate_estimation_value) > 0

\* C9: every message sent carries ratios in [1/10, 1], a flag that is 0 or
\* 1, and breathing and heart frequencies that are not negative, negative
\* rates and negative filtered values included.
TelemetryInRange ==
    timer_ticks > 0 =>
        /\ osc_message.presence \in {0, 1}
        /\ osc_message.xratio[2] > 0
        /\ osc_message.xratio[2] <= 10 * osc_message.xratio[1]
        /\ osc_message.xratio[1] <= osc_message.xratio[2]
        /\ osc_message.yratio = osc_message.xratio
        /\ osc_message.xhz[2] > 0 /\ osc_message.xhz[1] >= 0
        /\ osc_message.yhz[2] > 0 /\ osc_message.yhz[1] >= 0

\* presence was reported with the ratio at its floor while the rates were
\* negative
TelemetryInRangeWitness ==
    /\ timer_ticks > 0
    /\ osc_message.presence = 1
    /\ Newest(filtered_breathing_plot) < 0
    /\ 10 * osc_message.xratio[1] = osc_message.xratio[2]
    /\ Newest(breathing_rate_estimation_value) < 0
    /\ osc_message.xhz[1] = 0

\* the band regions the claim calls invalid: an edge outside [0, fs / 2],
\* or edges that are inverted or equal
InvalidBand(region) ==
    \/ region[1] < 0
    \/ 2 * region[2] > BandDen * vital_signs_sample_rate
    \/ region[1] >= region[2]

BandCallback(name) ==
    /\ config_changes' = config_changes + 1
    /\ last_callback'.name = name

\* C10: a band change to an invalid region leaves the stored edges, the
\* taps and both search-index bounds of the band as they were and raises
\* nothing.
InvalidBandRejectedWhole ==
    [][/\ (BandCallback("breathing") /\ InvalidBand(last_callback'.region)) =>
              (UNCHANGED breathingBandVars /\ ~last_callback'.raised)
       /\ (BandCallback("heart") /\ InvalidBand(last_callback'.region)) =>
              (UNCHANGED heartBandVars /\ ~last_callback'.raised)]_vars

\* what a band change that takes effect leaves behind: the edges, the taps
\* designed for them and the bounds int(edge * fft_size / fs)
BandTakesEffect(region, low, high, taps, index_start, index_end) ==
    /\ low = region[1]
    /\ high = region[2]
    /\ taps = [numtaps |-> filter_order, cutoff |-> region]
    /\ index_start
           = (region[1] * fft_size_vital_signs) \div (BandDen * vital_signs_sample_rate)
    /\ index_end
           = (region[2] * fft_size_vital_signs) \div (BandDen * vital_signs_sample_rate)

BuffersUnchanged ==
    /\ UNCHANGED <<radar_time_stamp, slow_time_buffer_data, I_Q_envelop>>
    /\ UNCHANGED <<wrapped_phase_plot, unwrapped_phase_plot, range_profile_peak_indices>>
    /\ UNCHANGED <<filterVars, rateVars>>
    /\ UNCHANGED <<breathing_rate_estimation_index, heart_rate_estimation_index>>

\* low < high, both inside [0, fs / 2]
InsideBand(region) ==
    /\ 0 <= region[1]
    /\ region[1] < region[2]
    /\ 2 * region[2] <= BandDen * vital_signs_sample_rate

\* 0 < low < fs / 4 and low < high < fs / 2
InsideGuardedBand(region) ==
    /\ 0 < region[1]
    /\ 4 * region[1] < BandDen * vital_signs_sample_rate
    /\ region[1] < region[2]
    /\ 2 * region[2] < BandDen * vital_signs_sample_rate

\* low = 0, low >= fs / 4 or high >= fs / 2
OutsideGuardedBand(region) ==
    \/ region[1] = 0
    \/ 4 * region[1] >= BandDen * vital_signs_sample_rate
    \/ 2 * region[2] >= BandDen * vital_signs_sample_rate

BandChangeEffect(valid(_)) ==
    /\ (BandCallback("breathing") /\ valid(last_callback'.region)) =>
           /\ BandTakesEffect(last_callback'.region, low_breathing',
                              high_breathing', breathing_b',
                              index_start_breathing', index_end_breathing')
           /\ UNCHANGED heartBandVars
           /\ BuffersUnchanged
    /\ (BandCallback("heart") /\ valid(last_callback'.region)) =>
           /\ BandTakesEffect(last_callback'.region, low_heart', high_heart',
                              heart_b', index_start_heart', index_end_heart')
           /\ UNCHANGED breathingBandVars
           /\ BuffersUnchanged

\* C11 as stated: every band change to low < high inside [0, fs / 2] takes
\* effect (edges stored, taps rebuilt, bounds int(edge * fft_size / fs)),
\* and leaves the other band and every ring buffer alone.
BandChangeTakesEffect == [][BandChangeEffect(InsideBand)]_vars

\* C11, amended: every band change to 0 < low < fs / 4, low < high < fs / 2
\* takes effect and leaves the other band and every ring buffer alone.
\* A change to low = 0, low >= fs / 4 or high >= fs / 2 is ignored.
GuardedBandChangeTakesEffect ==
    [][/\ BandChangeEffect(InsideGuardedBand)
       /\ \A name \in {"breathing", "heart"} :
              (BandCallback(name) /\ OutsideGuardedBand(last_callback'.region)) =>
                  UNCHANGED <<breathingBandVars, heartBandVars>> /\ BuffersUnchanged]_vars

\* a breathing band change took effect and moved both search bounds
BandChangeWitness ==
    /\ last_callback.name = "breathing"
    /\ InsideGuardedBand(last_callback.region)
    /\ low_breathing = last_callback.region[1]
    /\ index_start_breathing # SearchIndex(low_breathing_0)
    /\ index_end_breathing # SearchIndex(high_breathing_0)
    /\ Len(pushed) > 0

\* the frames taken off the queue so far
Dequeued == frames_read - Len(data_queue)

\* C12: each dequeued frame causes exactly one cycle that appends exactly one
\* sample to the slow-time buffers, so the number of appended samples always
\* equals the number of dequeued frames.
AppendedEqualsDequeued == Len(pushed) = Dequeued

\* C13: the timer callback only reads the ring buffers: a step of it leaves
\* every ring buffer, both rate value series included, unchanged.
TimerOnlyReads == [][TimerTick => UNCHANGED RingBuffers]_vars

\* C20: whatever the range gate is set to, every cycle runs to completion
\* without raising: the processing thread never dies.
ProcessingNeverDies == process_thread = "running"

\* the last 2 * sampleRate range-peak indices
TrackingWindow(peak_indices) == LastK(peak_indices, 2 * vital_signs_sample_rate)

\* C19: after every cycle the tracked bin is the mean of the last
\* 2 * sampleRate peak indices rounded to the nearest integer.
TrackedBinIsRoundedMean ==
    [][CycleDone =>
          range_profile_peak_index'
              = RoundHalfEven(SumSeq(TrackingWindow(range_profile_peak_indices')),
                              Len(TrackingWindow(range_profile_peak_indices')))]_vars

\* C18: after every cycle, from the first frame on, the tracked bin lies
\* inside the current gate: startIdx <= trackedBin < stopIdx.
TrackedBinInsideGate ==
    [][CycleDone =>
          /\ RangeIndex(object_distance_start_range) <= range_profile_peak_index'
          /\ range_profile_peak_index' < RangeIndex(object_distance_stop_range)]_vars

\* C16: the breath-cycle detector runs on the cycles numbered 5, 10, 15, ...
\* and on no others, so once five frames have been processed the inhalation
\* and exhalation lists have been recomputed.
DetectorRunsEveryFifth ==
    detection_cycles
        = [i \in 1..(Len(pushed) \div detection_interval) |-> detection_interval * i]

\* C15: the queue stays below a fixed bound however far the producer runs
\* ahead of the processing thread: it never holds as many as MaxBacklog
\* frames.
QueueBelowBound == Len(data_queue) < MaxBacklog

\* a step of the processing thread that found no frame in the queue
EmptyQueuePoll ==
    /\ data_queue = <<>>
    /\ UNCHANGED <<frames_read, timer_ticks, config_changes>>

StopsAfterShutdown == ~app_running => Len(pushed) <= cycles_at_quit + 1

\* the non-zero entries of a buffer form a suffix
NonZeroSuffix(buf) ==
    \A i \in 1..Len(buf) : buf[i] # 0 => \A j \in i..Len(buf) : buf[j] # 0

\* lines 383 and 391: the guard of a rate update
RateGuard(index_buffer, estimation_index) == index_buffer[estimation_index + 1] > 0

\* what a timer call does to one rate series: with the guard, every entry
\* it averages is a detection; without it, the series is left alone
GuardedRateUpdate(index_buffer, estimation_index, value_buffer, value_after) ==
    IF RateGuard(index_buffer, estimation_index)
    THEN LET window == RateWindow(index_buffer, estimation_index)
         IN  \A i \in 1..Len(window) : window[i] > 0
    ELSE value_after = value_buffer

\* C26: whenever the processing thread is between two cycles the non-zero
\* entries of both peak-index buffers form a suffix; a timer call whose
\* guard holds averages detections only, never an initial zero, and a timer
\* call whose guard fails appends nothing.
DetectionsFormSuffix ==
    [][/\ pc' = "idle" =>
              /\ NonZeroSuffix(breathing_rate_estimation_index')
              /\ NonZeroSuffix(heart_rate_estimation_index')
       /\ TimerTick =>
              /\ GuardedRateUpdate(breathing_rate_estimation_index,
                                   estimation_index_breathing,
                                   breathing_rate_estimation_value,
                                   breathing_rate_estimation_value')
              /\ GuardedRateUpdate(heart_rate_estimation_index,
                                   estimation_index_heart,
                                   heart_rate_estimation_value,
                                   heart_rate_estimation_value')]_vars

\* bin k (0-based) lies on a local maximum of the band [index_start,
\* index_end): a run of equal values inside the band whose two neighbours
\* are in the band and strictly lower
LocalMaximumOfBand(spectrum, index_start, index_end, k) ==
    LET last == Min(index_end, Len(spectrum)) - 1
    IN  \E l \in (index_start + 1)..k : \E r \in k..(last - 1) :
            /\ \A j \in l..r : spectrum[j + 1] = spectrum[k + 1]
            /\ spectrum[l] < spectrum[k + 1]
            /\ spectrum[r + 2] < spectrum[k + 1]

PeakSearchResult(spectrum, index_start, index_end, rate_index) ==
    /\ \/ rate_index = 0
       \/ /\ index_start < rate_index
          /\ rate_index < index_end - 1
          /\ LocalMaximumOfBand(spectrum, index_start, index_end, rate_index)
          /\ \A k \in index_start..(index_end - 1) :
                 LocalMaximumOfBand(spectrum, index_start, index_end, k) =>
                     spectrum[k + 1] <= spectrum[rate_index + 1]
    /\ index_start >= index_end => rate_index = 0

\* C27: find_signal_peaks returns 0 or a bin strictly between index_start
\* and index_end - 1 that is a local maximum of the band and the highest of
\* the band's local maxima; for an empty band it returns 0.
PeakSearchInsideBand ==
    [][CycleDone =>
          /\ PeakSearchResult(breathing_fft', index_start_breathing,
                              index_end_breathing, rate_index_br')
          /\ PeakSearchResult(heart_fft', index_start_heart, index_end_heart,
                              rate_index_hr')]_vars

\* of two local maxima in the band the later, higher one was returned
PeakSearchWitness ==
    /\ Len(pushed) > 0
    /\ breathing_fft = TwoSpikes(1, 2, 3, 3)
    /\ index_start_breathing = 0
    /\ rate_index_br = 3

\* the entries of a buffer in front of its trailing processing window
OutsideWindow == 1..(buffer_data_size - processing_data_size)

\* C24: a cycle changes the unwrapped-phase buffer only inside its trailing
\* processing window: apart from the shift by one, every entry in front of
\* the window keeps the value it had.
UnwrapOnlyInsideWindow ==
    [][CycleDone =>
          \A i \in OutsideWindow :
              unwrapped_phase_plot'[i] = unwrapped_phase_plot[i + 1]]_vars

\* the unwrap moved an entry of the window by a full turn while the entries
\* that have left the window differ from one another
UnwrapWitness ==
    /\ \E i \in 1..buffer_data_size : unwrapped_phase_plot[i] # wrapped_phase_plot[i]
    /\ \E i \in OutsideWindow :
           /\ unwrapped_phase_plot[i] # 0
           /\ i + 1 \in OutsideWindow
           /\ unwrapped_phase_plot[i + 1] # unwrapped_phase_plot[i]

\* a buffer moved by one position, whatever entered its newest slot
ShiftedByOne(buf, after) ==
    SubSeq(after, 1, Len(after) - 1) = SubSeq(buf, 2, Len(buf))

\* C23: the two rate value series advance in lock-step with the other ring
\* buffers: each takes exactly one new entry in every cycle and none in any
\* other step.
RateSeriesInLockStep ==
    [][/\ CycleDone =>
              /\ ShiftedByOne(breathing_rate_estimation_value,
                              breathing_rate_estimation_value')
              /\ ShiftedByOne(heart_rate_estimation_value,
                              heart_rate_estimation_value')
       /\ ~CycleDone => UNCHANGED rateVars]_vars

\* C28: with fair scheduling and no cycle raising, every frame put into the
\* queue is eventually taken off it and processed.
\* The n-th frame read is eventually the n-th frame dequeued and gives the
\* n-th sample.
EveryFrameProcessed ==
    \A n \in 1..(MaxLiveFrames + 1) :
        (frames_read >= n) ~> (Dequeued >= n /\ Len(pushed) >= n)

\* every frame was read and processed after two frames had waited together
EveryFrameProcessedWitness ==
    /\ frames_read = MaxLiveFrames
    /\ Len(pushed) = MaxLiveFrames
    /\ data_queue = <<>>

\* C25 as stated: each cycle rewrites the filtered breathing and heart
\* buffers over their whole trailing processing window with the freshly
\* filtered window.
FilteredWindowRewritten ==
    [][CycleDone =>
          /\ LastK(filtered_breathing_plot', processing_data_size) = filtered_breathing'
          /\ LastK(filtered_heart_plot', processing_data_size) = filtered_heart']_vars

\* C25, amended: each cycle shifts the filtered breathing and heart buffers
\* by one position and writes only their newest slot, with the last value of
\* the freshly filtered window.
FilteredNewestWritten ==
    [][CycleDone =>
          /\ ShiftedByOne(filtered_breathing_plot, filtered_breathing_plot')
          /\ Newest(filtered_breathing_plot') = Newest(filtered_breathing')
          /\ ShiftedByOne(filtered_heart_plot, filtered_heart_plot')
          /\ Newest(filtered_heart_plot') = Newest(filtered_heart')]_vars

\* the buffer holds the newest values of three successive windows, which
\* is not the last window
FilteredNewestWitness ==
    /\ Len(pushed) >= processing_data_size
    /\ Newest(filtered_breathing_plot) = Newest(filtered_breathing)
    /\ LastK(filtered_breathing_plot, processing_data_size) # filtered_breathing
    /\ Newest(filtered_breathing_plot) # 0
    /\ filtered_breathing_plot[buffer_data_size - 1] # 0


\* C21: whenever the timer callback runs, the ring buffers it draws
\* (timestamps, IQ samples, envelope, wrapped and unwrapped phase, both
\* filtered signals) hold the same number of appended samples, and none of
\* them has been shifted without its newest slot having been written.
TimerSeesConsistentSnapshot ==
    [][TimerTick =>
           /\ shifted = written
           /\ written \in {{}, SlowTimeBuffers}]_vars

\* the search-index bounds that belong to the band-edge pair of these taps
BoundsOfTaps(taps) == <<SearchIndex(taps.cutoff[1]), SearchIndex(taps.cutoff[2])>>

\* the step of a cycle that searches both spectra for their peaks
PeakSearchStep == pc = "index_rolled" /\ pc' = "idle"

\* C22: in every cycle the FIR taps a band was filtered with and the
\* start and end search-index bounds its peak search uses derive from one
\* and the same band-edge pair.
TapsAndBoundsFromOnePair ==
    [][PeakSearchStep =>
           /\ <<index_start_breathing, index_end_breathing>> =
                  BoundsOfTaps(taps_used.breathing)
           /\ <<index_start_heart, index_end_heart>> =
                  BoundsOfTaps(taps_used.heart)]_vars
============================================================================
